---- MODULE Spec2Model ----
(***************************************************************************)
(* gfuture: a future is an unbuffered Go channel of payloads.  A resolver  *)
(* sends one payload on it and then closes it (sendAndClose); an awaiter   *)
(* receives from it, alone (Await of gfuture.go) or in a select against a  *)
(* context (Await of the context variant) or a timer (AwaitWithTimeout).   *)
(*                                                                         *)
(* Every call made on a future runs in a goroutine of its own; goroutines  *)
(* are numbered in the order in which their calls are made.                *)
(***************************************************************************)
EXTENDS Integers, FiniteSets, Sequences, TLC

\* Number of calls a run makes on the futures.
MaxCalls == 3

\* The goroutines of a run of MaxCalls calls, of a run of two calls (one
\* resolver and one awaiter, as in the tests), and of a run with one call
\* more (two resolvers and two awaiters).
Goroutines == 1..MaxCalls
Pair == 1..2
RaceGoroutines == 1..(MaxCalls + 1)

\* The goroutines of a chain as in TestThen: Async, Then and Await.
Chain == 1..3

All == Goroutines \cup Pair \cup RaceGoroutines \cup Chain

ResolvingCalls == {"Resolve", "Value", "Error", "Async"}
AwaitingCalls == {"Await", "AwaitWithTimeout", "Get", "Then"}

\* The type parameter T is instantiated with a small integer type; its zero
\* value is 0.
Values == {0, 1}
zero == 0

\* error values: nil, one domain error, and the two errors of a context.
nil == "nil"
Errors == {nil, "e1"}
CtxErrors == {"Canceled", "DeadlineExceeded"}

\* Contexts handed to Await / Then: context.Background() is never done.
Contexts == {"Background", "Cancellable"}

\* Durations handed to AwaitWithTimeout.
Durations == {0, 1}

Futures == {"A"}

\* The futures of a chain: A is the one Async returns, B the one that the
\* consumer handed to A.Then resolves.
Chained == {"A", "B"}

VARIABLES
    closed,     \* closed[f]: close(f) has been executed on future f
    pc,         \* pc[g]: where goroutine g is
    op,         \* op[g]: the call goroutine g runs ("none" before it is made)
    fut,        \* fut[g]: the future the call is made on
    args,       \* args[g]: the arguments of a resolving call (provider's
                \* return values for Async); a component not passed is zero / nil
    p,          \* p[g]: the payload a resolver hands to sendAndClose
    ctx,        \* ctx[g]: the context handed to Await / Then
    ctxErr,     \* ctxErr[g]: ctx.Err() of that context (nil until it is done)
    dur,        \* dur[g]: the duration handed to AwaitWithTimeout
    timer,      \* timer[g]: the channel of time.After(t) has its value
    res,        \* res[g]: what the awaiting call returned
    from,       \* from[g]: the case that completed the receive or select of g
                \* ("recv", "closed", "ctx", "timeout") and, for "recv", the sender
    calls,      \* calls[g]: the arguments of the invocations of Then's consumer
    seen        \* seen[g]: what the call of g found when it was made: the state
                \* of its future (st) and the awaiting calls that had returned (ret)

vars == <<closed, pc, op, fut, args, p, ctx, ctxErr, dur, timer, res, from, calls, seen>>

\* payload[T]{val, err}
payload(v, e) == [val |-> v, err |-> e]

NoPayload == payload(zero, nil)

\* The return values of Await / AwaitWithTimeout / Get; ok is the third
\* result of AwaitWithTimeout and Optional.Present of Get.
result(v, e, b) == [val |-> v, err |-> e, ok |-> b]

NoResult == result(zero, nil, FALSE)

\* How a receive or select completed; by is 0 when no sender is involved.
case(c, s) == [case |-> c, by |-> s]

Returned(g) == pc[g] \in {"done", "panic"}

Init ==
    /\ closed = [f \in Futures \cup Chained |-> FALSE]
    /\ pc = [g \in All |-> "idle"]
    /\ op = [g \in All |-> "none"]
    /\ fut = [g \in All |-> "A"]
    /\ args = [g \in All |-> NoPayload]
    /\ p = [g \in All |-> NoPayload]
    /\ ctx = [g \in All |-> "Background"]
    /\ ctxErr = [g \in All |-> nil]
    /\ dur = [g \in All |-> 0]
    /\ timer = [g \in All |-> FALSE]
    /\ res = [g \in All |-> NoResult]
    /\ from = [g \in All |-> case("none", 0)]
    /\ calls = [g \in All |-> <<>>]
    /\ seen = [g \in All |-> [st |-> "fresh", ret |-> {}]]

Running(g) == pc[g] \notin {"idle", "done", "panic"}

\* Goroutine g is the next call to be made: goroutines are numbered in the
\* order of their calls.
NextCall(g) ==
    /\ pc[g] = "idle"
    /\ \A h \in All : h < g => pc[h] # "idle"

\* The state of future f: no resolving call made on it yet ("fresh"), some
\* made and the channel open ("pending"), or the channel closed ("closed").
State(f) ==
    IF closed[f] THEN "closed"
    ELSE IF \E r \in All : op[r] \in ResolvingCalls /\ fut[r] = f THEN "pending"
    ELSE "fresh"

\* The bookkeeping every call shares.
Call(g, f, name, at) ==
    /\ NextCall(g)
    /\ pc' = [pc EXCEPT ![g] = at]
    /\ op' = [op EXCEPT ![g] = name]
    /\ fut' = [fut EXCEPT ![g] = f]
    /\ seen' = [seen EXCEPT ![g] =
           [st |-> State(f),
            ret |-> IF name \in AwaitingCalls
                    THEN {h \in All : op[h] \in AwaitingCalls /\ Returned(h)}
                    ELSE {}]]

----
\* Resolvers

\* f.Resolve(value, err): sendAndClose(payload{val: value, err: err})
Resolve(g, f, v, e) ==
    /\ Call(g, f, "Resolve", "send")
    /\ args' = [args EXCEPT ![g] = [val |-> v, err |-> e]]
    /\ p' = [p EXCEPT ![g] = payload(v, e)]
    /\ UNCHANGED <<closed, ctx, ctxErr, dur, timer, res, from, calls>>

\* Value as it would be with the value left out of the payload.
ValueDropsValue(g, f, v) ==
    /\ Call(g, f, "Value", "send")
    /\ args' = [args EXCEPT ![g] = [val |-> v, err |-> nil]]
    /\ p' = [p EXCEPT ![g] = payload(zero, nil)]
    /\ UNCHANGED <<closed, ctx, ctxErr, dur, timer, res, from, calls>>

\* f.Value(value): sendAndClose(payload{val: value})
Value(g, f, v) ==
    /\ Call(g, f, "Value", "send")
    /\ args' = [args EXCEPT ![g] = [val |-> v, err |-> nil]]
    /\ p' = [p EXCEPT ![g] = payload(v, nil)]
    /\ UNCHANGED <<closed, ctx, ctxErr, dur, timer, res, from, calls>>

\* f.Error(err): sendAndClose(payload{err: err})
Error(g, f, e) ==
    /\ Call(g, f, "Error", "send")
    /\ args' = [args EXCEPT ![g] = [val |-> zero, err |-> e]]
    /\ p' = [p EXCEPT ![g] = payload(zero, e)]
    /\ UNCHANGED <<closed, ctx, ctxErr, dur, timer, res, from, calls>>

\* Async(provider): the future is made, the goroutine is started and the
\* future is returned to the caller; provider runs in the goroutine.
Async(g, f) ==
    /\ Call(g, f, "Async", "provider")
    /\ \A h \in All : pc[h] # "idle" => fut[h] # f
    /\ UNCHANGED <<closed, args, p, ctx, ctxErr, dur, timer, res, from, calls>>

\* provider's goroutine as it would be if it resolved with the value alone.
ProviderDropsError(g, v, e) ==
    /\ pc[g] = "provider"
    /\ pc' = [pc EXCEPT ![g] = "send"]
    /\ args' = [args EXCEPT ![g] = [val |-> v, err |-> e]]
    /\ p' = [p EXCEPT ![g] = payload(v, nil)]
    /\ UNCHANGED <<closed, op, fut, ctx, ctxErr, dur, timer, res, from, calls, seen>>

\* provider() returns (v, e) and the goroutine calls f.Resolve(v, e).
Provider(g, v, e) ==
    /\ pc[g] = "provider"
    /\ pc' = [pc EXCEPT ![g] = "send"]
    /\ args' = [args EXCEPT ![g] = [val |-> v, err |-> e]]
    /\ p' = [p EXCEPT ![g] = payload(v, e)]
    /\ UNCHANGED <<closed, op, fut, ctx, ctxErr, dur, timer, res, from, calls, seen>>

\* The send as it would be if a closed future ignored it and returned.
SendOnClosedReturns(g) ==
    /\ pc[g] = "send"
    /\ closed[fut[g]]
    /\ pc' = [pc EXCEPT ![g] = "done"]
    /\ UNCHANGED <<closed, op, fut, args, p, ctx, ctxErr, dur, timer, res, from, calls, seen>>

\* sendAndClose, `f <- p` on a closed channel: panic.
SendPanic(g) ==
    /\ pc[g] = "send"
    /\ closed[fut[g]]
    /\ pc' = [pc EXCEPT ![g] = "panic"]
    /\ UNCHANGED <<closed, op, fut, args, p, ctx, ctxErr, dur, timer, res, from, calls, seen>>

\* sendAndClose, close(f): closes the channel, or panics if it is closed.
Close(g) ==
    /\ pc[g] = "close"
    /\ IF closed[fut[g]]
       THEN /\ pc' = [pc EXCEPT ![g] = "panic"]
            /\ UNCHANGED closed
       ELSE /\ pc' = [pc EXCEPT ![g] = "done"]
            /\ closed' = [closed EXCEPT ![fut[g]] = TRUE]
    /\ UNCHANGED <<op, fut, args, p, ctx, ctxErr, dur, timer, res, from, calls, seen>>

----
\* Awaiters

\* Where the awaiting call goes when its select completes.
AfterSelect(g) == IF op[g] = "Then" THEN "consumer" ELSE "done"

\* f.Await(ctx): the goroutine reaches the select.
Await(g, f, c) ==
    /\ Call(g, f, "Await", "select")
    /\ ctx' = [ctx EXCEPT ![g] = c]
    /\ UNCHANGED <<closed, args, p, ctxErr, dur, timer, res, from, calls>>

\* f.AwaitWithTimeout(t): the goroutine reaches the select; the timer of
\* time.After(t) is due at once when t is 0.
AwaitWithTimeout(g, f, t) ==
    /\ Call(g, f, "AwaitWithTimeout", "select")
    /\ dur' = [dur EXCEPT ![g] = t]
    /\ timer' = [timer EXCEPT ![g] = (t = 0)]
    /\ UNCHANGED <<closed, args, p, ctx, ctxErr, res, from, calls>>

\* f.Get(): f.AwaitWithTimeout(zeroDuration)
Get(g, f) ==
    /\ Call(g, f, "Get", "select")
    /\ dur' = [dur EXCEPT ![g] = 0]
    /\ timer' = [timer EXCEPT ![g] = TRUE]
    /\ UNCHANGED <<closed, args, p, ctx, ctxErr, res, from, calls>>

\* f.Then(ctx, consumer): starts the goroutine that awaits, and returns.
Then(g, f, c) ==
    /\ Call(g, f, "Then", "select")
    /\ ctx' = [ctx EXCEPT ![g] = c]
    /\ UNCHANGED <<closed, args, p, ctxErr, dur, timer, res, from, calls>>

\* The context of a blocked Await is cancelled or reaches its deadline.
Cancel(g, e) ==
    /\ pc[g] = "select"
    /\ ctx[g] = "Cancellable"
    /\ ctxErr[g] = nil
    /\ ctxErr' = [ctxErr EXCEPT ![g] = e]
    /\ UNCHANGED <<closed, pc, op, fut, args, p, ctx, dur, timer, res, from, calls, seen>>

\* The duration of a blocked AwaitWithTimeout elapses.
TimerFire(g) ==
    /\ pc[g] = "select"
    /\ op[g] = "AwaitWithTimeout"
    /\ ~timer[g]
    /\ timer' = [timer EXCEPT ![g] = TRUE]
    /\ UNCHANGED <<closed, pc, op, fut, args, p, ctx, ctxErr, dur, res, from, calls, seen>>

\* The receive as it would be if it handed back the error alone.
ReceivedDropsValue(pl) == result(zero, pl.err, TRUE)

\* What a receive that completes hands back to the caller.
Received(pl) == result(pl.val, pl.err, TRUE)

\* The send as it would be on a buffered channel: the sender goes on while
\* the receiver is still waiting.
SendWithoutRecv(s, g) ==
    /\ pc[s] = "send"
    /\ pc[g] = "select"
    /\ fut[s] = fut[g]
    /\ ~closed[fut[g]]
    /\ pc' = [pc EXCEPT ![s] = "close"]
    /\ UNCHANGED <<closed, op, fut, args, p, ctx, ctxErr, dur, timer, res, from, calls, seen>>

\* The rendezvous on the unbuffered channel: `f <- p` of resolver s meets
\* `payload := <-f` of awaiter g.
SendRecv(s, g) ==
    /\ pc[s] = "send"
    /\ pc[g] = "select"
    /\ fut[s] = fut[g]
    /\ ~closed[fut[g]]
    /\ pc' = [pc EXCEPT ![s] = "close", ![g] = AfterSelect(g)]
    /\ res' = [res EXCEPT ![g] = Received(p[s])]
    /\ from' = [from EXCEPT ![g] = case("recv", s)]
    /\ UNCHANGED <<closed, op, fut, args, p, ctx, ctxErr, dur, timer, calls, seen>>

\* The receive as it would be if a closed channel left the receiver blocked.
RecvClosedBlocks(g) ==
    /\ pc[g] = "select"
    /\ closed[fut[g]]
    /\ UNCHANGED vars

\* `payload := <-f` on a closed channel: the zero payload, at once.
RecvClosed(g) ==
    /\ pc[g] = "select"
    /\ closed[fut[g]]
    /\ pc' = [pc EXCEPT ![g] = AfterSelect(g)]
    /\ res' = [res EXCEPT ![g] = Received(NoPayload)]
    /\ from' = [from EXCEPT ![g] = case("closed", 0)]
    /\ UNCHANGED <<closed, op, fut, args, p, ctx, ctxErr, dur, timer, calls, seen>>

\* The cancelled Await as it would be if it returned no error.
CtxResultNoError(g) == result(zero, nil, TRUE)

\* What Await returns from `case <-ctx.Done()`.
CtxResult(g) == result(zero, ctxErr[g], TRUE)

\* The cancelled Await as it would be if giving up closed the future.
CtxDoneCloses(g) ==
    /\ pc[g] = "select"
    /\ op[g] \in {"Await", "Then"}
    /\ ctxErr[g] # nil
    /\ pc' = [pc EXCEPT ![g] = AfterSelect(g)]
    /\ res' = [res EXCEPT ![g] = CtxResult(g)]
    /\ from' = [from EXCEPT ![g] = case("ctx", 0)]
    /\ closed' = [closed EXCEPT ![fut[g]] = TRUE]
    /\ UNCHANGED <<op, fut, args, p, ctx, ctxErr, dur, timer, calls, seen>>

\* Await, `case <-ctx.Done()`.
CtxDone(g) ==
    /\ pc[g] = "select"
    /\ op[g] \in {"Await", "Then"}
    /\ ctxErr[g] # nil
    /\ pc' = [pc EXCEPT ![g] = AfterSelect(g)]
    /\ res' = [res EXCEPT ![g] = CtxResult(g)]
    /\ from' = [from EXCEPT ![g] = case("ctx", 0)]
    /\ UNCHANGED <<closed, op, fut, args, p, ctx, ctxErr, dur, timer, calls, seen>>

\* The timed-out call as it would be if it reported a value present.
TimeoutReportsPresent(g) ==
    /\ pc[g] = "select"
    /\ op[g] \in {"AwaitWithTimeout", "Get"}
    /\ timer[g]
    /\ pc' = [pc EXCEPT ![g] = "done"]
    /\ res' = [res EXCEPT ![g] = result(zero, nil, TRUE)]
    /\ from' = [from EXCEPT ![g] = case("timeout", 0)]
    /\ UNCHANGED <<closed, op, fut, args, p, ctx, ctxErr, dur, timer, calls, seen>>

\* AwaitWithTimeout, `case <-time.After(t)`.
Timeout(g) ==
    /\ pc[g] = "select"
    /\ op[g] \in {"AwaitWithTimeout", "Get"}
    /\ timer[g]
    /\ pc' = [pc EXCEPT ![g] = "done"]
    /\ res' = [res EXCEPT ![g] = result(zero, nil, FALSE)]
    /\ from' = [from EXCEPT ![g] = case("timeout", 0)]
    /\ UNCHANGED <<closed, op, fut, args, p, ctx, ctxErr, dur, timer, calls, seen>>

\* Then's goroutine as it would be if it kept Await's error from consumer.
ConsumerDropsError(g) ==
    /\ pc[g] = "consumer"
    /\ pc' = [pc EXCEPT ![g] = "done"]
    /\ calls' = [calls EXCEPT ![g] = Append(@, payload(res[g].val, nil))]
    /\ UNCHANGED <<closed, op, fut, args, p, ctx, ctxErr, dur, timer, res, from, seen>>

\* Then's goroutine: consumer(f.Await(ctx)).
Consumer(g) ==
    /\ pc[g] = "consumer"
    /\ pc' = [pc EXCEPT ![g] = "done"]
    /\ calls' = [calls EXCEPT ![g] = Append(@, payload(res[g].val, res[g].err))]
    /\ UNCHANGED <<closed, op, fut, args, p, ctx, ctxErr, dur, timer, res, from, seen>>

\* The chaining consumer as it would be if it passed the value alone on.
ConsumerResolveDropsError(g, b) ==
    /\ pc[g] = "consumer"
    /\ pc' = [pc EXCEPT ![g] = "send"]
    /\ calls' = [calls EXCEPT ![g] = Append(@, payload(res[g].val, res[g].err))]
    /\ fut' = [fut EXCEPT ![g] = b]
    /\ args' = [args EXCEPT ![g] = [val |-> res[g].val, err |-> res[g].err]]
    /\ p' = [p EXCEPT ![g] = payload(res[g].val, nil)]
    /\ UNCHANGED <<closed, op, ctx, ctxErr, dur, timer, res, from, seen>>

\* Then's goroutine with the consumer of TestThen:
\* func(value, err) { future.Resolve(value, err) }.  The goroutine is now
\* inside b.Resolve, at the send of sendAndClose on future b.
ConsumerResolve(g, b) ==
    /\ pc[g] = "consumer"
    /\ pc' = [pc EXCEPT ![g] = "send"]
    /\ calls' = [calls EXCEPT ![g] = Append(@, payload(res[g].val, res[g].err))]
    /\ fut' = [fut EXCEPT ![g] = b]
    /\ args' = [args EXCEPT ![g] = [val |-> res[g].val, err |-> res[g].err]]
    /\ p' = [p EXCEPT ![g] = payload(res[g].val, res[g].err)]
    /\ UNCHANGED <<closed, op, ctx, ctxErr, dur, timer, res, from, seen>>

----
Next ==
    \/ \E g \in Goroutines, f \in Futures, v \in Values, e \in Errors : Resolve(g, f, v, e)
    \/ \E g \in Goroutines, f \in Futures, v \in Values : Value(g, f, v)
    \/ \E g \in Goroutines, f \in Futures, e \in Errors : Error(g, f, e)
    \/ \E g \in Goroutines, f \in Futures : Async(g, f)
    \/ \E g \in Goroutines, v \in Values, e \in Errors : Provider(g, v, e)
    \/ \E g \in Goroutines : SendPanic(g)
    \/ \E g \in Goroutines : Close(g)
    \/ \E g \in Goroutines, f \in Futures, c \in Contexts : Await(g, f, c)
    \/ \E g \in Goroutines, f \in Futures, t \in Durations : AwaitWithTimeout(g, f, t)
    \/ \E g \in Goroutines, f \in Futures : Get(g, f)
    \/ \E g \in Goroutines, f \in Futures, c \in Contexts : Then(g, f, c)
    \/ \E g \in Goroutines, e \in CtxErrors : Cancel(g, e)
    \/ \E g \in Goroutines : TimerFire(g)
    \/ \E s \in Goroutines, g \in Goroutines : SendRecv(s, g)
    \/ \E g \in Goroutines : RecvClosed(g)
    \/ \E g \in Goroutines : CtxDone(g)
    \/ \E g \in Goroutines : Timeout(g)
    \/ \E g \in Goroutines : Consumer(g)

Spec == Init /\ [][Next]_vars

\* The same runs under a fair scheduler: a goroutine that can take a step
\* takes one, and time passes.  Calls are made, and contexts cancelled, only
\* if the program chooses to.
Fairness ==
    \A g \in Goroutines :
        /\ WF_vars(\E v \in Values, e \in Errors : Provider(g, v, e))
        /\ WF_vars(\E a \in Goroutines : SendRecv(g, a))
        /\ WF_vars(SendPanic(g))
        /\ WF_vars(Close(g))
        /\ WF_vars(TimerFire(g))
        /\ WF_vars(RecvClosed(g) \/ CtxDone(g) \/ Timeout(g))
        /\ WF_vars(Consumer(g))

FairSpec == Init /\ [][Next]_vars /\ Fairness

----
\* Two goroutines racing to resolve one future while others wait on it:
\* one call more than in Spec, made of Resolve and of the calls that
\* return a payload to their caller.
RaceNext ==
    \/ \E g \in RaceGoroutines, f \in Futures, v \in Values, e \in Errors : Resolve(g, f, v, e)
    \/ \E g \in RaceGoroutines : SendPanic(g)
    \/ \E g \in RaceGoroutines : Close(g)
    \/ \E g \in RaceGoroutines, f \in Futures, c \in Contexts : Await(g, f, c)
    \/ \E g \in RaceGoroutines, f \in Futures, t \in Durations : AwaitWithTimeout(g, f, t)
    \/ \E g \in RaceGoroutines, f \in Futures : Get(g, f)
    \/ \E g \in RaceGoroutines, e \in CtxErrors : Cancel(g, e)
    \/ \E g \in RaceGoroutines : TimerFire(g)
    \/ \E s \in RaceGoroutines, g \in RaceGoroutines : SendRecv(s, g)
    \/ \E g \in RaceGoroutines : RecvClosed(g)
    \/ \E g \in RaceGoroutines : CtxDone(g)
    \/ \E g \in RaceGoroutines : Timeout(g)

RaceSpec == Init /\ [][RaceNext]_vars

----
\* Two calls on a fresh future, as in the tests (go future.Resolve(42, nil);
\* future.Await(ctx)), under a fair scheduler.  The calls are made, and a
\* context is cancelled, only if the program chooses to.
PairNext ==
    \/ \E g \in Pair, f \in Futures, v \in Values, e \in Errors : Resolve(g, f, v, e)
    \/ \E g \in Pair, f \in Futures, v \in Values : Value(g, f, v)
    \/ \E g \in Pair, f \in Futures, e \in Errors : Error(g, f, e)
    \/ \E g \in Pair, f \in Futures : Async(g, f)
    \/ \E g \in Pair, v \in Values, e \in Errors : Provider(g, v, e)
    \/ \E g \in Pair : Close(g)
    \/ \E g \in Pair, f \in Futures, c \in Contexts : Await(g, f, c)
    \/ \E g \in Pair, f \in Futures, t \in Durations : AwaitWithTimeout(g, f, t)
    \/ \E g \in Pair, f \in Futures : Get(g, f)
    \/ \E g \in Pair, f \in Futures, c \in Contexts : Then(g, f, c)
    \/ \E g \in Pair, e \in CtxErrors : Cancel(g, e)
    \/ \E g \in Pair : TimerFire(g)
    \/ \E s \in Pair, g \in Pair : SendRecv(s, g)
    \/ \E g \in Pair : CtxDone(g)
    \/ \E g \in Pair : Timeout(g)
    \/ \E g \in Pair : Consumer(g)

\* The scheduler runs every goroutine that can take a step; time passes.
PairFairness ==
    \A g \in Pair :
        /\ WF_vars(\E v \in Values, e \in Errors : Provider(g, v, e))
        /\ WF_vars(\E a \in Pair : SendRecv(g, a))
        /\ WF_vars(Close(g))
        /\ WF_vars(TimerFire(g))
        /\ WF_vars(CtxDone(g) \/ Timeout(g))
        /\ WF_vars(Consumer(g))

PairSpec == Init /\ [][PairNext]_vars /\ PairFairness

----
\* Chaining, as in TestThen and TestThenWithError: A is made by Async, the
\* consumer handed to A.Then resolves B, and Awaits wait on either future,
\* under a fair scheduler.
ChainNext ==
    \/ \E g \in Chain : Async(g, "A")
    \/ \E g \in Chain, v \in Values, e \in Errors : Provider(g, v, e)
    \/ \E g \in Chain, c \in Contexts : Then(g, "A", c)
    \/ \E g \in Chain, f \in Chained, c \in Contexts : Await(g, f, c)
    \/ \E g \in Chain, e \in CtxErrors : Cancel(g, e)
    \/ \E s \in Chain, g \in Chain : SendRecv(s, g)
    \/ \E g \in Chain : RecvClosed(g)
    \/ \E g \in Chain : CtxDone(g)
    \/ \E g \in Chain : ConsumerResolve(g, "B")
    \/ \E g \in Chain : SendPanic(g)
    \/ \E g \in Chain : Close(g)

ChainFairness ==
    \A g \in Chain :
        /\ WF_vars(\E v \in Values, e \in Errors : Provider(g, v, e))
        /\ WF_vars(\E a \in Chain : SendRecv(g, a))
        /\ WF_vars(RecvClosed(g) \/ CtxDone(g))
        /\ WF_vars(ConsumerResolve(g, "B"))
        /\ WF_vars(SendPanic(g))
        /\ WF_vars(Close(g))

ChainSpec == Init /\ [][ChainNext]_vars /\ ChainFairness

----
\* What the claims speak of.

\* Some goroutine has panicked (which ends a Go program).
Panicked == \E q \in All : pc[q] = "panic"

\* The outcome a resolving call supplies, from its arguments: Resolve(v, e)
\* supplies (v, e), Value(v) supplies (v, nil), Error(e) supplies (zero, e),
\* and Async supplies what provider returned.
Supplied(r) ==
    CASE op[r] = "Value" -> payload(args[r].val, nil)
      [] op[r] = "Error" -> payload(zero, args[r].err)
      [] OTHER -> payload(args[r].val, args[r].err)

\* The (value, error) an awaiting call returned.
Outcome(g) == payload(res[g].val, res[g].err)

Called(g) == pc[g] # "idle"

\* The awaiting call of g has returned (for Then: its Await has).
Awaited(g) == op[g] \in AwaitingCalls /\ pc[g] \in {"consumer", "done"}

\* r is the only resolving call made.
OnlyResolver(r) ==
    /\ op[r] \in ResolvingCalls
    /\ \A q \in All \ {r} : op[q] \notin ResolvingCalls

\* A receive of g has completed (from a resolver, or on the closed channel).
HasReceived(g) == from[g].case \in {"recv", "closed"}

\* The awaiting call of g gave up: its context was done, or its timer fired.
GaveUp(g) == from[g].case \in {"ctx", "timeout"}

\* g is the only awaiting call whose receive has completed.
OnlyReceiver(g) == HasReceived(g) /\ \A k \in All \ {g} : ~HasReceived(k)

\* No resolver of future f has reached its send.
Unresolved(f) ==
    /\ ~closed[f]
    /\ \A r \in All :
        (op[r] \in ResolvingCalls /\ fut[r] = f) => pc[r] = "provider"

\* The call of r is one of Resolve, Value, Error.
Resolving(r) == op[r] \in {"Resolve", "Value", "Error"}

----
\* C1: after a resolve on a future, every Await on it that returns without
\* cancellation returns the outcome the resolve supplied, however many Awaits
\* there are.  Stated for one resolving call and the Awaits made once that
\* resolve has completed.
C1_EveryAwaitReturnsOutcome ==
    \A r \in All, g \in All :
        ( /\ OnlyResolver(r) /\ Resolving(r)
          /\ op[g] = "Await" /\ fut[g] = fut[r]
          /\ seen[g].st = "closed"
          /\ Awaited(g) /\ from[g].case # "ctx" )
        => Outcome(g) = Supplied(r)

----
\* C2: with exactly one resolver goroutine and exactly one Await on a fresh
\* future, the Await eventually returns exactly what the resolver supplied,
\* unless its context is cancelled.
C2_SingleAwaitReturnsOutcome ==
    \A r \in Pair, g \in Pair :
        (Resolving(r) /\ op[g] = "Await")
        ~> ( \/ /\ pc[g] = "done"
                /\ from[g] = case("recv", r)
                /\ Outcome(g) = Supplied(r)
             \/ ctxErr[g] # nil )

\* An Await whose context was never cancelled has returned the error that
\* Error(e) supplied.
C2_Witness ==
    \E r \in Pair, g \in Pair :
        /\ op[r] = "Error" /\ args[r].err # nil
        /\ op[g] = "Await" /\ ctxErr[g] = nil
        /\ pc[g] = "done" /\ pc[r] = "done"
        /\ Outcome(g) = payload(zero, args[r].err)

----
\* C3: when N >= 2 goroutines are all blocked in Await on the unresolved
\* future and a single Value(v) is then performed, every one of the N Awaits
\* returns (v, nil).
C3_AllBlockedAwaitersSeeValue ==
    \A r \in All :
        ( /\ OnlyResolver(r) /\ op[r] = "Value"
          /\ Cardinality({g \in All : g < r}) >= 2
          /\ \A g \in All \ {r} :
                Called(g) => /\ g < r
                             /\ op[g] = "Await" /\ fut[g] = fut[r]
                             /\ seen[g].st = "fresh" /\ ctxErr[g] = nil )
        => \A g \in All \ {r} :
                Awaited(g) => Outcome(g) = payload(args[r].val, nil)

----
\* C4: a resolve called on a future whose first resolve has completed ends
\* in a panic and never returns; its payload is delivered to no awaiter, and
\* what the awaiters received from the first resolve stays as it was.
C4_SecondResolvePanics ==
    \A r \in All :
        (Resolving(r) /\ seen[r].st = "closed")
        => /\ pc[r] \in {"send", "panic"}
           /\ closed[fut[r]]
           /\ \A g \in All :
                /\ from[g].by # r
                /\ from[g].case = "recv" => Outcome(g) = Supplied(from[g].by)

\* A second resolve has panicked and the awaiter of the first holds the
\* first one's outcome.
C4_Witness ==
    \E q \in All, r \in All, g \in All :
        /\ q # r /\ Resolving(q) /\ Resolving(r)
        /\ pc[q] = "done" /\ seen[r].st = "closed" /\ pc[r] = "panic"
        /\ Supplied(r) # Supplied(q) /\ Supplied(q) # NoPayload
        /\ from[g] = case("recv", q) /\ Outcome(g) = Supplied(q)

----
\* C5: when two goroutines call Resolve concurrently with different
\* payloads, at most one of the two payloads is ever returned by the
\* awaiting calls.
C5_FirstResolutionWins ==
    \A q \in All, r \in All :
        ( /\ q < r /\ op[q] = "Resolve" /\ op[r] = "Resolve"
          /\ fut[q] = fut[r] /\ seen[r].st = "pending"
          /\ Supplied(q) # Supplied(r)
          /\ Supplied(q) # NoPayload /\ Supplied(r) # NoPayload )
        => ~ \E g \in All, h \in All :
                /\ Awaited(g) /\ Awaited(h)
                /\ HasReceived(g) /\ HasReceived(h)
                /\ Outcome(g) = Supplied(q) /\ Outcome(h) = Supplied(r)

----
\* C6: Resolve, Value, Error, Get, Async and Then never block their caller:
\* a goroutine inside one of them can always take its next step without any
\* other goroutine acting.  (Async and Then have returned to their caller
\* once their goroutine exists; a resolving call inside its send needs the
\* channel closed or a receiver waiting; Get needs its timer due.)
C6_NeverBlocksCaller ==
    \A g \in All :
        /\ (Resolving(g) /\ pc[g] = "send")
            => \/ closed[fut[g]]
               \/ \E a \in All : pc[a] = "select" /\ fut[a] = fut[g]
        /\ (op[g] = "Get" /\ pc[g] = "select") => timer[g]

----
\* C7: an Await whose context is done while the future is still unresolved
\* (no resolver has reached its send) returns (zero, ctx.Err()) with a
\* non-nil error, never a resolved payload.
C7_CancelledAwaitReturnsCtxErr ==
    [][ \A g \in All :
          ( /\ op[g] = "Await" /\ pc[g] = "select"
            /\ ctxErr[g] # nil /\ Unresolved(fut[g])
            /\ pc'[g] # "select" )
          => /\ ctxErr[g] \in CtxErrors
             /\ res'[g] = result(zero, ctxErr[g], TRUE)
             /\ res'[g].err # nil
             /\ from'[g].case = "ctx" ]_vars

\* An Await has returned its context's error while no resolving call had
\* been made.
C7_Witness ==
    \E g \in All :
        /\ op[g] = "Await" /\ pc[g] = "done"
        /\ Unresolved(fut[g])
        /\ Outcome(g) = payload(zero, "DeadlineExceeded")

----
\* C8: an awaiting call that gives up (context done, or timed out) leaves
\* the future as it was: the step changes neither the channel nor any
\* other goroutine, and a fresh Await made afterwards, the only call to receive,
\* returns the resolver's outcome.
C8_GivingUpChangesNothing ==
    \A g \in All :
        (pc[g] = "select" /\ GaveUp(g)')
        => /\ closed' = closed
           /\ \A r \in All \ {g} : pc'[r] = pc[r] /\ p'[r] = p[r]

C8_FreshAwaitReturnsOutcome ==
    \A r \in All, h \in All, g \in All :
        ( /\ OnlyResolver(r)
          /\ GaveUp(h) /\ h \in seen[g].ret
          /\ op[g] = "Await" /\ fut[g] = fut[r] /\ fut[h] = fut[r]
          /\ Awaited(g) /\ from[g].case # "ctx"
          /\ OnlyReceiver(g) )
        => Outcome(g) = Supplied(r)

\* C8, both parts: giving up is a step that leaves the future alone, and
\* the fresh Await made after it returns the resolver's outcome.
C8_GivingUpLeavesFuture ==
    /\ [][C8_GivingUpChangesNothing]_vars
    /\ []C8_FreshAwaitReturnsOutcome

\* The resolver was blocked in its send when an Await gave up on its
\* context; an Await made after that has returned the resolver's outcome.
C8_Witness ==
    \E r \in All, h \in All, g \in All :
        /\ OnlyResolver(r) /\ Supplied(r) # NoPayload
        /\ op[h] = "Await" /\ from[h].case = "ctx" /\ seen[h].st = "pending"
        /\ h \in seen[g].ret
        /\ op[g] = "Await" /\ pc[g] = "done" /\ from[g] = case("recv", r)
        /\ Outcome(g) = Supplied(r)

----
----
\* C10: for every Then(consumer) on a future that is resolved with (v, e),
\* consumer is invoked exactly once with (v, e), whatever other awaiters
\* there are on the future.
C10_ThenConsumerGetsOutcome ==
    \A r \in All, g \in All :
        ( /\ OnlyResolver(r) /\ pc[r] = "done"
          /\ op[g] = "Then" /\ fut[g] = fut[r]
          /\ ctxErr[g] = nil
          /\ pc[g] = "done" )
        => calls[g] = <<Supplied(r)>>

----
----
\* C12: if the context given to Then fires while the future is unresolved
\* (no resolver has reached its send), Then's Await returns
\* (zero, ctx.Err()) leaving the future as it was, consumer is invoked
\* exactly once, with (zero, ctx.Err()), and an Await made afterwards, the
\* only call to receive, still returns the resolver's outcome.
C12_ThenGivesUp ==
    \A g \in All :
        ( /\ op[g] = "Then" /\ pc[g] = "select"
          /\ ctxErr[g] # nil /\ Unresolved(fut[g])
          /\ pc'[g] # "select" )
        => /\ pc'[g] = "consumer" /\ calls'[g] = <<>>
           /\ res'[g] = result(zero, ctxErr[g], TRUE)
           /\ ctxErr[g] \in CtxErrors
           /\ closed' = closed /\ Unresolved(fut[g])'
           /\ \A r \in All \ {g} : pc'[r] = pc[r] /\ p'[r] = p[r]

C12_ConsumerInvokedOnce ==
    \A g \in All :
        (op[g] = "Then" /\ from[g].case = "ctx")
        => /\ pc[g] = "consumer" => calls[g] = <<>>
           /\ pc[g] = "done" => calls[g] = <<payload(zero, ctxErr[g])>>

C12_StillAwaitable ==
    \A r \in All, g \in All, h \in All :
        ( /\ op[g] = "Then" /\ from[g].case = "ctx" /\ g \in seen[h].ret
          /\ OnlyResolver(r) /\ fut[g] = fut[r]
          /\ op[h] = "Await" /\ fut[h] = fut[r]
          /\ Awaited(h) /\ from[h].case # "ctx"
          /\ OnlyReceiver(h) )
        => Outcome(h) = Supplied(r)

\* C12, all parts: the step, the single invocation of consumer (which a
\* fair scheduler brings about unless a second resolve makes the program
\* panic), and the future still awaitable.
C12_FiredThenInvokesConsumer ==
    /\ [][C12_ThenGivesUp]_vars
    /\ [](C12_ConsumerInvokedOnce /\ C12_StillAwaitable)
    /\ \A g \in Goroutines :
          (op[g] = "Then" /\ from[g].case = "ctx")
          ~> ( \/ pc[g] = "done" /\ calls[g] = <<payload(zero, ctxErr[g])>>
               \/ Panicked )

\* consumer was invoked with (zero, Canceled) by a Then made on the fresh
\* future; an Await made after that has returned the outcome of the
\* resolve that came later still.
C12_Witness ==
    \E r \in All, g \in All, h \in All :
        /\ op[g] = "Then" /\ seen[g].st = "fresh" /\ pc[g] = "done"
        /\ calls[g] = <<payload(zero, "Canceled")>>
        /\ g \in seen[h].ret /\ g < r
        /\ OnlyResolver(r) /\ Supplied(r) # NoPayload
        /\ op[h] = "Await" /\ pc[h] = "done" /\ from[h] = case("recv", r)
        /\ Outcome(h) = Supplied(r)

----
\* C13: on a future on which no resolving call has been made, Get returns
\* Optional{Present: false, Value: zero, Err: nil} and AwaitWithTimeout(0)
\* returns (zero, nil, false); neither blocks (the call can return by
\* itself) and neither changes the future.
Polling(g) == op[g] \in {"Get", "AwaitWithTimeout"} /\ dur[g] = 0

C13_PollReturnsAbsent ==
    \A g \in All :
        ( /\ Polling(g) /\ pc[g] = "select"
          /\ State(fut[g]) = "fresh"
          /\ pc'[g] # "select" )
        => /\ pc'[g] = "done"
           /\ res'[g] = result(zero, nil, FALSE)
           /\ closed' = closed /\ State(fut[g])' = "fresh"
           /\ \A r \in All \ {g} : pc'[r] = pc[r] /\ p'[r] = p[r]

C13_PollDoesNotBlock ==
    \A g \in All :
        (Polling(g) /\ pc[g] = "select" /\ State(fut[g]) = "fresh")
        => ENABLED Timeout(g)

C13_PollOnFreshFuture ==
    /\ [][C13_PollReturnsAbsent]_vars
    /\ []C13_PollDoesNotBlock

\* A Get and an AwaitWithTimeout(0) have both returned not-present on a
\* future that is still fresh.
C13_Witness ==
    \E g \in All, h \in All :
        /\ op[g] = "Get" /\ pc[g] = "done" /\ res[g] = NoResult
        /\ op[h] = "AwaitWithTimeout" /\ dur[h] = 0
        /\ pc[h] = "done" /\ res[h] = NoResult
        /\ fut[g] = fut[h] /\ State(fut[g]) = "fresh"

----
\* C14: once a resolve(v, e) on a future has completed, every Get made
\* later returns Present = true with (v, e), and every AwaitWithTimeout(d)
\* made later, for any d, returns (v, e, true).
C14_LaterPollsReturnOutcome ==
    \A r \in All, g \in All :
        ( /\ OnlyResolver(r) /\ Resolving(r)
          /\ op[g] \in {"Get", "AwaitWithTimeout"} /\ fut[g] = fut[r]
          /\ seen[g].st = "closed"
          /\ pc[g] = "done" )
        => res[g] = result(Supplied(r).val, Supplied(r).err, TRUE)

----
\* C15: if a resolve is performed on a future while goroutines are blocked
\* in Await or AwaitWithTimeout on it, then under fair scheduling every one
\* of those blocked calls eventually returns (unless a second resolve makes
\* the program panic).
C15_BlockedAwaitersReturn ==
    \A r \in Goroutines, g \in Goroutines :
        ( /\ op[r] \in ResolvingCalls /\ pc[r] \notin {"idle", "provider"}
          /\ op[g] \in {"Await", "AwaitWithTimeout"} /\ fut[g] = fut[r]
          /\ pc[g] = "select" )
        ~> (pc[g] = "done" \/ Panicked)

\* Two Awaits that nothing but a resolve can wake were blocked on the fresh
\* future before the resolve was made, and both have returned: one in the
\* rendezvous, the other on the closed channel.
C15_Witness ==
    \E r \in Goroutines, g \in Goroutines, h \in Goroutines :
        /\ Resolving(r) /\ g < r /\ h < r /\ g # h
        /\ op[g] = "Await" /\ ctx[g] = "Background" /\ seen[g].st = "fresh"
        /\ op[h] = "Await" /\ ctx[h] = "Background" /\ seen[h].st = "fresh"
        /\ pc[g] = "done" /\ from[g] = case("recv", r)
        /\ pc[h] = "done" /\ from[h].case = "closed"

----
\* C16 (rendezvous): a resolving call, the one made by Async's goroutine
\* included, leaves its send only in a step in which an awaiting call
\* receives its payload (or by a panic on the closed channel); it reaches
\* close and returns only after that delivery, the channel is closed only by
\* a resolver whose payload was delivered, and while nobody receives the
\* resolver stays in its send and the future stays open.
C16_SendNeedsReceive ==
    \A r \in All :
        ( /\ op[r] \in ResolvingCalls /\ pc[r] = "send"
          /\ pc'[r] # "send" )
        => \/ /\ pc'[r] = "close" /\ closed' = closed
              /\ \E g \in All :
                    /\ op[g] \in AwaitingCalls /\ pc[g] = "select"
                    /\ pc'[g] # "select"
                    /\ from'[g] = case("recv", r)
                    /\ res'[g] = Received(p[r])
           \/ closed[fut[r]] /\ pc'[r] = "panic"

C16_CloseNeedsDelivery ==
    \A f \in Futures :
        closed'[f] # closed[f]
        => \E r \in All, g \in All :
              /\ op[r] \in ResolvingCalls /\ fut[r] = f
              /\ pc[r] = "close" /\ pc'[r] = "done"
              /\ from[g] = case("recv", r)

C16_ReturnedAfterDelivery ==
    /\ \A r \in All :
          (op[r] \in ResolvingCalls /\ pc[r] \in {"close", "done"})
          => \E g \in All :
                from[g] = case("recv", r) /\ res[g] = Received(p[r])
    /\ \A f \in Futures :
          closed[f] => \E r \in All, g \in All :
                          /\ op[r] \in ResolvingCalls /\ fut[r] = f
                          /\ pc[r] = "done" /\ from[g] = case("recv", r)

C16_Rendezvous ==
    /\ [][C16_SendNeedsReceive /\ C16_CloseNeedsDelivery]_vars
    /\ []C16_ReturnedAfterDelivery

\* As in TestAwaitWithTimeout: the Await on Async's future returned on its
\* deadline and a poll timed out; provider has returned, and its goroutine
\* is in the send with the future open and nobody left to receive: no
\* step is possible any more.
C16_Witness ==
    \E r \in All, g \in All, h \in All :
        /\ op[r] = "Async" /\ pc[r] = "send" /\ p[r] # NoPayload
        /\ op[g] = "Await" /\ fut[g] = fut[r] /\ pc[g] = "done"
        /\ Outcome(g) = payload(zero, "DeadlineExceeded")
        /\ op[h] = "Get" /\ fut[h] = fut[r] /\ pc[h] = "done"
        /\ from[h].case = "timeout" /\ seen[h].st = "pending"
        /\ ~closed[fut[r]]
        /\ \A k \in Goroutines : pc[k] \notin {"idle", "select"}
        /\ ~ ENABLED Next

----
\* C17 (single delivery): with one resolver, its payload is returned by at
\* most one receive on the future, by exactly one once the resolver is past
\* its send, and that receive is the first to complete: every other receive
\* that has completed did so on the closed channel, after the delivery, and
\* returned the zero value with a nil error.
C17_SingleDelivery ==
    \A r \in All :
        OnlyResolver(r)
        => LET receivers == {g \in All : fut[g] = fut[r] /\ HasReceived(g)}
               delivered == {g \in receivers : from[g].case = "recv"}
           IN  /\ Cardinality(delivered) <= 1
               /\ pc[r] \in {"close", "done"} => Cardinality(delivered) = 1
               /\ \A g \in delivered :
                    /\ from[g].by = r
                    /\ res[g] = result(p[r].val, p[r].err, TRUE)
                    /\ p[r] = Supplied(r)
               /\ \A g \in receivers \ delivered :
                    /\ res[g] = result(zero, nil, TRUE)
                    /\ closed[fut[r]] /\ pc[r] = "done"
                    /\ delivered # {}

\* The one resolver has returned; the first receive got its payload
\* (1, e1) and a poll that completed its receive afterwards got (0, nil).
C17_Witness ==
    \E r \in All, g \in All, h \in All :
        /\ OnlyResolver(r) /\ op[r] = "Resolve" /\ pc[r] = "done"
        /\ p[r] = payload(1, "e1")
        /\ from[g] = case("recv", r) /\ res[g] = result(1, "e1", TRUE)
        /\ op[h] = "AwaitWithTimeout" /\ fut[h] = fut[r]
        /\ from[h].case = "closed" /\ res[h] = result(zero, nil, TRUE)

====
